---- MODULE Spec2Model ----
(***************************************************************************)
(* Model of the model router, utils/router.py: pick_model,                 *)
(* list_available_models, get_context_window, should_use_reasoning_model.  *)
(*                                                                         *)
(* Python strings are sequences of one-character strings, so that          *)
(* str.lower() and the substring operator `in` are computed and not        *)
(* assumed.                                                                *)
(***************************************************************************)
EXTENDS Integers, Sequences, FiniteSets, TLC

(***************************************************************************)
(* Bounds.                                                                 *)
(***************************************************************************)
\* technique strings are concatenations of at most this many fragments
MaxTechFrags == 2
\* model strings are concatenations of at most this many fragments
MaxModelFrags == 3

(***************************************************************************)
(* Strings.                                                                *)
(***************************************************************************)
UpperLetters ==
    <<"A","B","C","D","E","F","G","H","I","J","K","L","M",
      "N","O","P","Q","R","S","T","U","V","W","X","Y","Z">>

LowerLetters ==
    <<"a","b","c","d","e","f","g","h","i","j","k","l","m",
      "n","o","p","q","r","s","t","u","v","w","x","y","z">>

\* one character of str.lower()
LowerChar(c) ==
    IF \E i \in DOMAIN UpperLetters : UpperLetters[i] = c
    THEN LowerLetters[CHOOSE i \in DOMAIN UpperLetters : UpperLetters[i] = c]
    ELSE c

\* str.lower()
Lower(s) == [i \in DOMAIN s |-> LowerChar(s[i])]

\* Python's `sub in s` on strings
Contains(sub, s) ==
    \E i \in 0..(Len(s) - Len(sub)) : SubSeq(s, i + 1, i + Len(sub)) = sub

\* Python's any(x in s for x in list)
AnyIn(list, s) == \E i \in DOMAIN list : Contains(list[i], s)

RECURSIVE Concats(_, _)
\* all concatenations of at most n fragments of frags
Concats(frags, n) ==
    IF n = 0 THEN { <<>> }
    ELSE LET shorter == Concats(frags, n - 1)
         IN  shorter \cup { s \o f : s \in shorter, f \in frags }

(***************************************************************************)
(* Keywords and patterns of the source, as character sequences.            *)
(***************************************************************************)
K_cot      == <<"c","o","t">>
K_tot      == <<"t","o","t">>
K_reason   == <<"r","e","a","s","o","n">>
K_think    == <<"t","h","i","n","k">>
K_strong   == <<"s","t","r","o","n","g">>
K_complex  == <<"c","o","m","p","l","e","x">>
K_advanced == <<"a","d","v","a","n","c","e","d">>

P_gpt4o     == <<"g","p","t","-","4","o">>
P_o3        == <<"o","3">>
P_o1        == <<"o","1">>
P_gpt4      == <<"g","p","t","-","4">>
P_gpt35     == <<"g","p","t","-","3",".","5">>
P_gemini3   == <<"g","e","m","i","n","i","-","3">>
P_gemini2   == <<"g","e","m","i","n","i","-","2">>
P_gemini15  == <<"g","e","m","i","n","i","-","1",".","5">>
P_llama31   == <<"l","l","a","m","a","-","3",".","1">>
P_llama32   == <<"l","l","a","m","a","-","3",".","2">>
P_deepseek  == <<"d","e","e","p","s","e","e","k","-","r","1">>

(***************************************************************************)
(* get_context_window                                                      *)
(***************************************************************************)
get_context_window_noLower(model) ==
    LET model_lower == model
    IN  IF AnyIn(<<P_gpt4o, P_o3, P_o1, P_gpt4>>, model_lower) THEN 128000
        ELSE IF Contains(P_gpt35, model_lower) THEN 16385
        ELSE IF Contains(P_gemini3, model_lower) THEN 2000000
        ELSE IF Contains(P_gemini2, model_lower) THEN 2000000
        ELSE IF Contains(P_gemini15, model_lower) THEN 1000000
        ELSE IF Contains(P_llama31, model_lower)
                \/ Contains(P_llama32, model_lower) THEN 131072
        ELSE IF Contains(P_deepseek, model_lower) THEN 65536
        ELSE 8000

get_context_window(model) ==
    LET model_lower == Lower(model)
    IN  IF AnyIn(<<P_gpt4o, P_o3, P_o1, P_gpt4>>, model_lower) THEN 128000
        ELSE IF Contains(P_gpt35, model_lower) THEN 16385
        ELSE IF Contains(P_gemini3, model_lower) THEN 2000000
        ELSE IF Contains(P_gemini2, model_lower) THEN 2000000
        ELSE IF Contains(P_gemini15, model_lower) THEN 1000000
        ELSE IF Contains(P_llama31, model_lower)
                \/ Contains(P_llama32, model_lower) THEN 131072
        ELSE IF Contains(P_deepseek, model_lower) THEN 65536
        ELSE 8000

(***************************************************************************)
(* Inputs.                                                                 *)
(***************************************************************************)
\* fragments of technique strings; "s"+"CoT", "pro"+"tot" and "co"+"t"
\* make keywords appear inside and across words, in either case
TechFrags ==
    { <<"C","o","T">>, K_tot, <<"R","e","a","s","o","n">>, K_think,
      K_strong, <<"C","O","M","P","L","E","X">>, K_advanced,
      <<"f","e","w","-","s","h","o","t">>, <<"c","o">>, <<"t">> }

Techniques == Concats(TechFrags, MaxTechFrags)

\* the techniques used where the file system varies
RouteTechniques == { <<"C","o","T">>, K_strong }

ModelFrags ==
    { P_gpt4, <<"o">>, <<"G","P","T","-","3",".","5">>,
      <<"g","e","m","i","n","i","-">>, <<"G","e","m","i","n","i","-">>,
      <<"1",".","5">>, <<"2">>, <<"3">>, <<"1">>,
      <<"l","l","a","m","a","-","3",".">>, P_deepseek,
      <<"c","l","a","u","d","e","-","3">>, <<"-","p","r","o">>,
      <<"-","m","i","n","i">> }

Models == Concats(ModelFrags, MaxModelFrags)

Providers == {"openai", "google", "groq", "azure"}

\* the absent tier argument, tier=None
None == "<None>"

TierArgs == {None, "general", "strong", "reason", "turbo"}

\* the tier arguments used where the file system varies
RouteTiers == {None, "reason", "turbo"}

\* config_path arguments: the default, relative one and an absolute one
DefaultConfigPath == "config/models.yaml"

ConfigPaths == {DefaultConfigPath, "/etc/alt.yaml"}

WorkingDirs == {"/proj", "/work"}

(***************************************************************************)
(* The file system and the YAML parser.                                    *)
(***************************************************************************)
\* Path(__file__).parent.parent / "config" / "models.yaml",
\* with router.py installed as /proj/utils/router.py
FallbackFile == "/proj/config/models.yaml"

\* the file a path denotes for a process whose working directory is dir
Resolve(dir, path) ==
    IF path = DefaultConfigPath
    THEN (IF dir = "/proj" THEN "/proj/config/models.yaml"
                           ELSE "/work/config/models.yaml")
    ELSE path

Locations == {"/proj/config/models.yaml", "/work/config/models.yaml", "/etc/alt.yaml"}

\* what a location holds: no file, or a file with one of four texts
NoFile == "absent"

Contents == {NoFile, "A", "B", "empty", "malformed"}

ConfigA ==
    [ openai |-> [general |-> "gpt-4o-mini", strong |-> "gpt-4o", reason |-> "o3"],
      google |-> [general |-> "gemini-2.0-flash", strong |-> "gemini-1.5-pro"],
      groq   |-> [general |-> "llama-3.1-8b"] ]

ConfigB ==
    [ openai |-> [general |-> "gpt-3.5-turbo"],
      google |-> [general |-> "gemini-3-flash", strong |-> "gemini-3-pro",
                  reason |-> "gemini-3-think"],
      groq   |-> [strong |-> "llama-3.2-90b", reason |-> "deepseek-r1"] ]

\* the empty mapping, {}
EmptyDict == [p \in {} |-> <<>>]

\* yaml.safe_load: a mapping, None for an empty document, or a YAMLError
safe_load(text) ==
    CASE text = "A"     -> [kind |-> "dict", dict |-> ConfigA]
      [] text = "B"     -> [kind |-> "dict", dict |-> ConfigB]
      [] text = "empty" -> [kind |-> "None", dict |-> EmptyDict]
      [] OTHER          -> [kind |-> "error", dict |-> EmptyDict]

(***************************************************************************)
(* Outcomes of a call.                                                     *)
(***************************************************************************)
Idle == [status |-> "idle", exc |-> "", str |-> "", dict |-> EmptyDict,
         isNone |-> FALSE, msg |-> <<>>]

ReturnStr(s) == [status |-> "return", exc |-> "", str |-> s, dict |-> EmptyDict,
                 isNone |-> FALSE, msg |-> <<>>]

ReturnDict(d) == [status |-> "return", exc |-> "", str |-> "", dict |-> d,
                  isNone |-> FALSE, msg |-> <<>>]

ReturnNone == [status |-> "return", exc |-> "", str |-> "", dict |-> EmptyDict,
               isNone |-> TRUE, msg |-> <<>>]

Raise(e, m) == [status |-> "raise", exc |-> e, str |-> "", dict |-> EmptyDict,
                isNone |-> FALSE, msg |-> m]

(***************************************************************************)
(* State.                                                                  *)
(***************************************************************************)
VARIABLES
    cwd,                 \* Path.cwd() of the process
    fs,                  \* the file system: what each location holds
    call,                \* the latest pick_model / list_available_models call
                         \* made since the file system last changed
    result,              \* what that call returned or raised
    reads,               \* how many times that call opened a source
    opened,              \* the file that call opened, "" if none
    resolved,            \* pick_model's tier after line 62, "" if not reached
    model,               \* argument of the latest get_context_window call
    window,              \* what it returned
    autoRoute,           \* should_auto_route_reasoning() of config_loader
    reasoningTechniques, \* get_reasoning_techniques() of config_loader
    asked,               \* argument of the latest should_use_reasoning_model call
    answer               \* what it returned: "none", "True" or "False"

vars == <<cwd, fs, call, result, reads, opened, resolved,
          model, window, autoRoute, reasoningTechniques, asked, answer>>

routerVars == <<cwd, fs, call, result, reads, opened, resolved>>

windowVars == <<model, window>>

reasonVars == <<autoRoute, reasoningTechniques, asked, answer>>

NoCall == [op |-> "none", provider |-> "", technique |-> <<>>, tier |-> None,
           config_path |-> ""]

(***************************************************************************)
(* Configuration resolution, lines 23-45 and 73-88.                        *)
(***************************************************************************)
\* Path.exists()
exists(files, file) == files[file] # NoFile

locate_fallbackFirst(dir, files, config_path) ==
    IF exists(files, FallbackFile) THEN FallbackFile
    ELSE Resolve(dir, config_path)

\* config_file after the first `if not config_file.exists()`
locate(dir, files, config_path) ==
    IF ~exists(files, Resolve(dir, config_path)) THEN FallbackFile
    ELSE Resolve(dir, config_path)

load_twice(files, config_file) ==
    [reads |-> 2, opened |-> config_file, config |-> safe_load(files[config_file]),
     files |-> files]

\* with open(config_file, "r", encoding="utf-8") as f: yaml.safe_load(f)
load(files, config_file) ==
    [reads |-> 1, opened |-> config_file, config |-> safe_load(files[config_file]),
     files |-> files]

(***************************************************************************)
(* pick_model                                                              *)
(***************************************************************************)
infer_tier_strongFirst(technique, tier) ==
    IF tier = None
    THEN LET technique_lower == Lower(technique)
         IN  IF AnyIn(<<K_strong, K_complex, K_advanced>>, technique_lower)
             THEN "strong"
             ELSE IF AnyIn(<<K_cot, K_tot, K_reason, K_think>>, technique_lower)
             THEN "reason"
             ELSE "general"
    ELSE tier

infer_tier_always(technique, tier) ==
    LET technique_lower == Lower(technique)
    IN  IF AnyIn(<<K_cot, K_tot, K_reason, K_think>>, technique_lower)
        THEN "reason"
        ELSE IF AnyIn(<<K_strong, K_complex, K_advanced>>, technique_lower)
        THEN "strong"
        ELSE IF tier = None THEN "general" ELSE tier

\* lines 51-62: the tier before the fallback
infer_tier(technique, tier) ==
    IF tier = None
    THEN LET technique_lower == Lower(technique)
         IN  IF AnyIn(<<K_cot, K_tot, K_reason, K_think>>, technique_lower)
             THEN "reason"
             ELSE IF AnyIn(<<K_strong, K_complex, K_advanced>>, technique_lower)
             THEN "strong"
             ELSE "general"
    ELSE tier

lookup_noFallback(config, provider, tier) ==
    IF tier \in DOMAIN config[provider]
    THEN ReturnStr(config[provider][tier])
    ELSE Raise("KeyError", <<tier>>)

\* lines 64-68: the fallback to general and the lookup
lookup(config, provider, tier) ==
    LET tier2 == IF tier \notin DOMAIN config[provider] THEN "general" ELSE tier
    IN  IF tier2 \in DOMAIN config[provider]
        THEN ReturnStr(config[provider][tier2])
        ELSE Raise("KeyError", <<"general">>)

route_noProviderCheck(config, provider, technique, tier, config_path) ==
    LET p == IF provider \notin DOMAIN config
             THEN CHOOSE q \in DOMAIN config : TRUE ELSE provider
    IN  [result   |-> lookup(config, p, infer_tier(technique, tier)),
         resolved |-> infer_tier(technique, tier)]

\* lines 47-68, for a configuration that is a mapping
route(config, provider, technique, tier, config_path) ==
    IF provider \notin DOMAIN config
    THEN [result   |-> Raise("KeyError",
                             <<"Provider", provider, "not found in", config_path>>),
          resolved |-> ""]
    ELSE [result   |-> lookup(config, provider, infer_tier(technique, tier)),
          resolved |-> infer_tier(technique, tier)]

not_found_soft(dir, config_path, config_file) ==
    ReturnStr("")

\* lines 33-38
not_found(dir, config_path, config_file) ==
    Raise("FileNotFoundError",
          <<"Model config not found. Tried:", config_path, config_file,
            "Current working directory:", dir>>)

pick_model(dir, files, provider, technique, tier, config_path) ==
    LET config_file == locate(dir, files, config_path)
    IN  IF ~exists(files, config_file)
        THEN [result   |-> not_found(dir, config_path, config_file),
              reads |-> 0, opened |-> "", resolved |-> "",
              files |-> files]
        ELSE LET l == load(files, config_file)
             IN  CASE l.config.kind = "error" ->
                        [result |-> Raise("YAMLError", <<config_file>>),
                         reads |-> l.reads, opened |-> l.opened, resolved |-> "",
                         files |-> l.files]
                   [] l.config.kind = "None" ->
                        \* `provider not in config` with config = None
                        [result |-> Raise("TypeError", <<"NoneType">>),
                         reads |-> l.reads, opened |-> l.opened, resolved |-> "",
                         files |-> l.files]
                   [] OTHER ->
                        LET r == route(l.config.dict, provider, technique, tier,
                                       config_path)
                        IN  [result |-> r.result, reads |-> l.reads,
                             opened |-> l.opened, resolved |-> r.resolved,
                             files |-> l.files]

(***************************************************************************)
(* list_available_models                                                   *)
(***************************************************************************)
list_available_models_strict(dir, files, config_path) ==
    LET r == pick_model(dir, files, "openai", <<>>, None, config_path)
    IN  IF r.result.exc = "FileNotFoundError"
        THEN [result |-> r.result, reads |-> r.reads, opened |-> r.opened,
              files |-> r.files]
        ELSE [result |-> ReturnDict(safe_load(files[r.opened]).dict),
              reads |-> r.reads, opened |-> r.opened, files |-> r.files]

list_available_models(dir, files, config_path) ==
    LET config_file == locate(dir, files, config_path)
    IN  IF ~exists(files, config_file)
        THEN [result |-> ReturnDict(EmptyDict), reads |-> 0, opened |-> "",
              files |-> files]
        ELSE LET l == load(files, config_file)
             IN  CASE l.config.kind = "error" ->
                        [result |-> Raise("YAMLError", <<config_file>>),
                         reads |-> l.reads, opened |-> l.opened, files |-> l.files]
                   [] l.config.kind = "None" ->
                        [result |-> ReturnNone,
                         reads |-> l.reads, opened |-> l.opened, files |-> l.files]
                   [] OTHER ->
                        [result |-> ReturnDict(l.config.dict),
                         reads |-> l.reads, opened |-> l.opened, files |-> l.files]

(***************************************************************************)
(* should_use_reasoning_model                                              *)
(***************************************************************************)
should_use_reasoning_model_ignoreFlag(flag, reasoning_techniques, technique) ==
    LET technique_lower == Lower(technique)
    IN  IF \E i \in DOMAIN reasoning_techniques :
               reasoning_techniques[i] = technique_lower
        THEN TRUE
        ELSE AnyIn(reasoning_techniques, technique_lower)

should_use_reasoning_model(flag, reasoning_techniques, technique) ==
    IF ~flag THEN FALSE
    ELSE LET technique_lower == Lower(technique)
         IN  IF \E i \in DOMAIN reasoning_techniques :
                    reasoning_techniques[i] = technique_lower
             THEN TRUE
             ELSE AnyIn(reasoning_techniques, technique_lower)

\* the keyword lists the routing configuration may hold
KeywordLists ==
    { <<>>, <<K_cot, K_tot>>, <<K_strong>>, << <<"C","o","T">> >>,
      << <<"f","e","w","-","s","h","o","t">>, K_think >> }

(***************************************************************************)
(* The router and its configuration source: calls of pick_model and        *)
(* list_available_models, interleaved with changes of the file system.     *)
(***************************************************************************)
IdleWindow == model = <<>> /\ window = 0

IdleReason ==
    /\ autoRoute = FALSE
    /\ reasoningTechniques = <<>>
    /\ asked = <<>>
    /\ answer = "none"

Init ==
    /\ cwd \in WorkingDirs
    /\ fs \in [Locations -> Contents]
    /\ call = NoCall
    /\ result = Idle
    /\ reads = 0
    /\ opened = ""
    /\ resolved = ""
    /\ IdleWindow
    /\ IdleReason

PickModel ==
    \E provider \in Providers, technique \in RouteTechniques,
       tier \in RouteTiers, config_path \in ConfigPaths :
        LET r == pick_model(cwd, fs, provider, technique, tier, config_path)
        IN  /\ call' = [op |-> "pick_model", provider |-> provider,
                        technique |-> technique, tier |-> tier,
                        config_path |-> config_path]
            /\ result' = r.result
            /\ reads' = r.reads
            /\ opened' = r.opened
            /\ resolved' = r.resolved
            /\ fs' = r.files
            /\ UNCHANGED <<cwd, windowVars, reasonVars>>

ListAvailableModels ==
    \E config_path \in ConfigPaths :
        LET r == list_available_models(cwd, fs, config_path)
        IN  /\ call' = [op |-> "list_available_models", provider |-> "",
                        technique |-> <<>>, tier |-> None,
                        config_path |-> config_path]
            /\ result' = r.result
            /\ reads' = r.reads
            /\ opened' = r.opened
            /\ resolved' = ""
            /\ fs' = r.files
            /\ UNCHANGED <<cwd, windowVars, reasonVars>>

\* the environment creates or rewrites a file
WriteFile ==
    \E file \in Locations, text \in Contents \ {NoFile} :
        /\ fs[file] # text
        /\ fs' = [fs EXCEPT ![file] = text]
        /\ call' = NoCall
        /\ result' = Idle
        /\ reads' = 0
        /\ opened' = ""
        /\ resolved' = ""
        /\ UNCHANGED <<cwd, windowVars, reasonVars>>

\* the environment removes a file
RemoveFile ==
    \E file \in Locations :
        /\ fs[file] # NoFile
        /\ fs' = [fs EXCEPT ![file] = NoFile]
        /\ call' = NoCall
        /\ result' = Idle
        /\ reads' = 0
        /\ opened' = ""
        /\ resolved' = ""
        /\ UNCHANGED <<cwd, windowVars, reasonVars>>

Next == PickModel \/ ListAvailableModels \/ WriteFile \/ RemoveFile

Spec == Init /\ [][Next]_vars

(***************************************************************************)
(* pick_model as a function of its arguments: Init draws the arguments     *)
(* and the configuration, the action applies the function.                 *)
(***************************************************************************)
InitInfer ==
    /\ cwd = "/work"
    /\ \E text \in {"A", "B"} :
          fs = [file \in Locations |->
                   IF file = "/etc/alt.yaml" THEN text ELSE NoFile]
    /\ call \in [op : {"pick_model"}, provider : Providers,
                 technique : Techniques, tier : TierArgs,
                 config_path : {"/etc/alt.yaml"}]
    /\ result = Idle
    /\ reads = 0
    /\ opened = ""
    /\ resolved = ""
    /\ IdleWindow
    /\ IdleReason

ApplyPickModel ==
    /\ result.status = "idle"
    /\ LET r == pick_model(cwd, fs, call.provider, call.technique, call.tier,
                           call.config_path)
       IN  /\ result' = r.result
           /\ reads' = r.reads
           /\ opened' = r.opened
           /\ resolved' = r.resolved
           /\ fs' = r.files
    /\ UNCHANGED <<cwd, call, windowVars, reasonVars>>

NextInfer == ApplyPickModel

SpecInfer == InitInfer /\ [][NextInfer]_vars

(***************************************************************************)
(* get_context_window as a function of its argument.                       *)
(***************************************************************************)
IdleRouter ==
    /\ cwd = "/proj"
    /\ fs = [file \in Locations |-> NoFile]
    /\ call = NoCall
    /\ result = Idle
    /\ reads = 0
    /\ opened = ""
    /\ resolved = ""

InitWindow ==
    /\ model \in Models
    /\ window = 0
    /\ IdleRouter
    /\ IdleReason

GetContextWindow ==
    /\ window = 0
    /\ window' = get_context_window(model)
    /\ UNCHANGED <<model, routerVars, reasonVars>>

NextWindow == GetContextWindow

SpecWindow == InitWindow /\ [][NextWindow]_vars

(***************************************************************************)
(* should_use_reasoning_model as a function of its argument and of the     *)
(* routing configuration.                                                  *)
(***************************************************************************)
InitReason ==
    /\ autoRoute \in BOOLEAN
    /\ reasoningTechniques \in KeywordLists
    /\ asked \in Techniques
    /\ answer = "none"
    /\ IdleRouter
    /\ IdleWindow

ShouldUseReasoningModel ==
    /\ answer = "none"
    /\ answer' = IF should_use_reasoning_model(autoRoute, reasoningTechniques, asked)
                 THEN "True" ELSE "False"
    /\ UNCHANGED <<autoRoute, reasoningTechniques, asked, routerVars, windowVars>>

NextReason == ShouldUseReasoningModel

SpecReason == InitReason /\ [][NextReason]_vars

(***************************************************************************)
(* Vocabulary of the properties.                                           *)
(***************************************************************************)
Returned(op) == call.op = op /\ result.status # "idle"

\* the file the supplied path denotes, and whether each candidate exists
SuppliedFile == Resolve(cwd, call.config_path)

SuppliedExists == fs[SuppliedFile] # NoFile

FallbackExists == fs[FallbackFile] # NoFile

\* first existing candidate wins; "" when neither exists
ChosenSource ==
    IF SuppliedExists THEN SuppliedFile
    ELSE IF FallbackExists THEN FallbackFile
    ELSE ""

\* the chosen source parses to a provider -> tier -> model mapping
ConfigLoaded == ChosenSource # "" /\ fs[ChosenSource] \in {"A", "B"}

LoadedConfig == IF fs[ChosenSource] = "A" THEN ConfigA ELSE ConfigB

KnownProvider == ConfigLoaded /\ call.provider \in DOMAIN LoadedConfig

ProviderEntry == LoadedConfig[call.provider]

Range(f) == { f[x] : x \in DOMAIN f }

ReasonKeywords == {K_cot, K_tot, K_reason, K_think}

StrongKeywords == {K_strong, K_complex, K_advanced}

HasKeyword(keywords, technique) ==
    \E k \in keywords : Contains(k, Lower(technique))

ExpectedTier(technique) ==
    IF HasKeyword(ReasonKeywords, technique) THEN "reason"
    ELSE IF HasKeyword(StrongKeywords, technique) THEN "strong"
    ELSE "general"

(***************************************************************************)
(* C1: with no tier argument and a known provider, the tier resolved       *)
(* before the fallback is reason if the lower-cased technique contains     *)
(* "cot", "tot", "reason" or "think", else strong if it contains           *)
(* "strong", "complex" or "advanced", else general; and when the provider  *)
(* defines that tier the call returns config[provider][tier].              *)
(***************************************************************************)
C1_TierInference ==
    (Returned("pick_model") /\ call.tier = None /\ KnownProvider) =>
        /\ resolved = ExpectedTier(call.technique)
        /\ resolved \in DOMAIN ProviderEntry =>
              result = ReturnStr(ProviderEntry[resolved])

\* "strongCoT" holds a strong and a reasoning keyword: reason wins
C1_Witness ==
    /\ Returned("pick_model")
    /\ call.tier = None
    /\ call.provider = "openai"
    /\ call.technique = K_strong \o <<"C","o","T">>
    /\ fs["/etc/alt.yaml"] = "A"
    /\ resolved = "reason"
    /\ result = ReturnStr("o3")

(***************************************************************************)
(* C2: with an explicit tier that the provider defines, the result is      *)
(* config[provider][tier] whatever the technique.                          *)
(***************************************************************************)
C2_ExplicitTierOverrides ==
    (Returned("pick_model") /\ call.tier # None /\ KnownProvider
        /\ call.tier \in DOMAIN ProviderEntry) =>
        result = ReturnStr(ProviderEntry[call.tier])

\* a reasoning technique with tier="general"
C2_Witness ==
    /\ Returned("pick_model")
    /\ call.tier = "general"
    /\ call.provider = "openai"
    /\ call.technique = <<"C","o","T">> \o K_think
    /\ fs["/etc/alt.yaml"] = "A"
    /\ result = ReturnStr("gpt-4o-mini")

(***************************************************************************)
(* C3: for a known provider that defines "general", a resolved tier,       *)
(* given or inferred, that the provider does not define yields             *)
(* config[provider]["general"] and no error, never another provider's      *)
(* model.                                                                  *)
(***************************************************************************)
C3_FallbackToGeneral ==
    (Returned("pick_model") /\ KnownProvider
        /\ "general" \in DOMAIN ProviderEntry
        /\ (IF call.tier = None THEN ExpectedTier(call.technique) ELSE call.tier)
              \notin DOMAIN ProviderEntry) =>
        /\ result = ReturnStr(ProviderEntry["general"])
        /\ \A p \in DOMAIN LoadedConfig \ {call.provider} :
              result.str \notin Range(LoadedConfig[p])

\* groq defines general only; "think" infers reason
C3_Witness ==
    /\ Returned("pick_model")
    /\ call.tier = None
    /\ call.provider = "groq"
    /\ call.technique = K_think
    /\ fs["/etc/alt.yaml"] = "A"
    /\ resolved = "reason"
    /\ result = ReturnStr("llama-3.1-8b")

(***************************************************************************)
(* C4: when a configuration is loaded and the provider is not one of its   *)
(* keys, pick_model raises the provider-not-found KeyError for every       *)
(* technique and tier, and neither infers a tier nor falls back.           *)
(***************************************************************************)
C4_ProviderNotFound ==
    (Returned("pick_model") /\ ConfigLoaded
        /\ call.provider \notin DOMAIN LoadedConfig) =>
        /\ result = Raise("KeyError",
                          <<"Provider", call.provider, "not found in",
                            call.config_path>>)
        /\ resolved = ""

C4_Witness ==
    /\ Returned("pick_model")
    /\ ConfigLoaded
    /\ call.provider = "azure"
    /\ call.tier = "reason"
    /\ result.status = "raise"
    /\ result.exc = "KeyError"
    /\ result.msg[1] = "Provider"

(***************************************************************************)
(* C5: pick_model raises the config-not-found FileNotFoundError exactly    *)
(* when neither the supplied path nor the fallback path exists; then       *)
(* nothing was read, the provider was not checked, and the message holds   *)
(* both attempted paths and the working directory.                         *)
(***************************************************************************)
C5_ConfigNotFound ==
    Returned("pick_model") =>
        /\ (result.status = "raise" /\ result.exc = "FileNotFoundError")
              <=> (~SuppliedExists /\ ~FallbackExists)
        /\ (~SuppliedExists /\ ~FallbackExists) =>
              /\ reads = 0
              /\ opened = ""
              /\ call.config_path \in Range(result.msg)
              /\ FallbackFile \in Range(result.msg)
              /\ cwd \in Range(result.msg)

\* an unknown provider and no source: the missing source is reported
C5_Witness ==
    /\ Returned("pick_model")
    /\ call.provider = "azure"
    /\ cwd = "/work"
    /\ ~SuppliedExists
    /\ ~FallbackExists
    /\ fs["/etc/alt.yaml"] = "A"
    /\ result.exc = "FileNotFoundError"

(***************************************************************************)
(* C6: with neither path existing list_available_models returns the empty  *)
(* mapping and raises nothing, where pick_model raises FileNotFoundError;  *)
(* with a source that parses to a mapping it returns that whole mapping.   *)
(***************************************************************************)
C6_ListIsSoft ==
    /\ (Returned("list_available_models") /\ ChosenSource = "") =>
          result = ReturnDict(EmptyDict)
    /\ (Returned("pick_model") /\ ChosenSource = "") =>
          (result.status = "raise" /\ result.exc = "FileNotFoundError")
    /\ (Returned("list_available_models") /\ ConfigLoaded) =>
          result = ReturnDict(LoadedConfig)

C6_Witness ==
    /\ Returned("list_available_models")
    /\ ChosenSource = ""
    /\ result.status = "return"
    /\ result.dict = EmptyDict

(***************************************************************************)
(* C7: get_context_window returns the capacity of the first rule of the    *)
(* table with a pattern that is a substring of the lower-cased model, and  *)
(* 8000 exactly when no pattern is; "gpt-4o-mini" -> 128000,               *)
(* "gemini-1.5-pro" -> 1000000, "claude-3" -> 8000.                        *)
(***************************************************************************)
ContextRules ==
    << [patterns |-> {P_gpt4o, P_o3, P_o1, P_gpt4}, capacity |-> 128000],
       [patterns |-> {P_gpt35},                     capacity |-> 16385],
       [patterns |-> {P_gemini3},                   capacity |-> 2000000],
       [patterns |-> {P_gemini2},                   capacity |-> 2000000],
       [patterns |-> {P_gemini15},                  capacity |-> 1000000],
       [patterns |-> {P_llama31, P_llama32},        capacity |-> 131072],
       [patterns |-> {P_deepseek},                  capacity |-> 65536] >>

RuleMatches(i, m) == \E pat \in ContextRules[i].patterns : Contains(pat, Lower(m))

MatchingRules(m) == { i \in DOMAIN ContextRules : RuleMatches(i, m) }

FirstRuleCapacity(m) ==
    IF MatchingRules(m) = {} THEN 8000
    ELSE ContextRules[CHOOSE i \in MatchingRules(m) :
                         \A j \in MatchingRules(m) : i <= j].capacity

M_gpt4o_mini == P_gpt4 \o <<"o">> \o <<"-","m","i","n","i">>

M_gemini15_pro == P_gemini15 \o <<"-","p","r","o">>

M_claude3 == <<"c","l","a","u","d","e","-","3">>

C7_ContextWindow ==
    window # 0 =>
        /\ window = FirstRuleCapacity(model)
        /\ window = 8000 <=> MatchingRules(model) = {}
        /\ model = M_gpt4o_mini => window = 128000
        /\ model = M_gemini15_pro => window = 1000000
        /\ model = M_claude3 => window = 8000

\* "GPT-3.5gemini-3" matches the second rule and the third: the second wins
C7_Witness ==
    /\ model = <<"G","P","T","-","3",".","5">> \o P_gemini3
    /\ window = 16385

(***************************************************************************)
(* C8: should_use_reasoning_model returns False whenever the auto-route    *)
(* flag is off; with the flag on it returns True iff the lower-cased       *)
(* technique equals or contains a keyword of the configured list, which    *)
(* is not pick_model's fixed list.                                         *)
(***************************************************************************)
C8_ReasoningCheck ==
    answer # "none" =>
        /\ ~autoRoute => answer = "False"
        /\ autoRoute =>
              (answer = "True" <=>
                  \E k \in Range(reasoningTechniques) :
                      \/ Lower(asked) = k
                      \/ Contains(k, Lower(asked)))

\* "Reasonthink" is a reasoning technique for pick_model, and is none for a
\* configured list that holds "strong" only
C8_Witness ==
    /\ autoRoute
    /\ reasoningTechniques = <<K_strong>>
    /\ asked = <<"R","e","a","s","o","n">> \o K_think
    /\ ExpectedTier(asked) = "reason"
    /\ answer = "False"

C10_FirstExistingWins ==
    (Returned("pick_model") \/ Returned("list_available_models")) =>
        /\ opened = ChosenSource
        /\ SuppliedExists => opened = SuppliedFile
        /\ opened = FallbackFile => (~SuppliedExists \/ SuppliedFile = FallbackFile)
        /\ (call.op = "list_available_models" /\ ConfigLoaded) =>
              result = ReturnDict(LoadedConfig)
        /\ (call.op = "pick_model" /\ KnownProvider /\ result.status = "return") =>
              result.str \in Range(ProviderEntry)

\* both candidates exist with different content: the supplied one is used
C10_Witness ==
    /\ Returned("pick_model")
    /\ cwd = "/work"
    /\ call.config_path = DefaultConfigPath
    /\ fs["/work/config/models.yaml"] = "A"
    /\ fs[FallbackFile] = "B"
    /\ call.provider = "google"
    /\ call.tier = "reason"
    /\ opened = "/work/config/models.yaml"
    /\ result = ReturnStr("gemini-2.0-flash")

====
